---- MODULE Spec2Model ----
(***************************************************************************)
(* Model of the multi-repository agent orchestration core:                 *)
(*   - MultiRepoWorktreeManager (create / commitAll / pushAll / cleanupAll)*)
(*   - createMultiRepoPRs and the PR providers                             *)
(*   - ClaudeAgent.execute, the caller that sequences both                 *)
(* External calls (filesystem, git, provider CLI, agent SDK) are the       *)
(* environment: each one nondeterministically succeeds or fails.           *)
(***************************************************************************)
EXTENDS Integers, Sequences, FiniteSets, TLC

\* ------------------------------------------------------------------ bounds
MaxRepos == 2
MaxCalls == 3

Repos == 1..MaxRepos
Providers == {"gitea", "github", "none"}
TaskIds == {"a1b2c3d4"}
CallerBranches == {"", "feature/x"}
BaseBranches == {"main"}
WorktreesBase == "/wt"
\* the files an agent may change in a worktree
Files == {"a.ts"}

VARIABLES
    \* the manager object
    taskId, branchName, configs, worktrees,
    \* constructor argument, kept to state what construction fixed
    branchArg,
    \* filesystem and git state outside the process
    disk, symlinks, untracked, edits, ahead, remote, usedBranches,
    \* the running method, its locals and what it returned
    call, loc, cl, rollback, pendingErr, ret, cleanupResult, workspace, pushResults,
    \* createMultiRepoPRs: its options, its locals and what it returned
    prIn, pr, prRet,
    \* execute: the item's parameters, its position, what it holds and produces
    params, epc, agentOut, execErr, item, io,
    \* the caller
    created, ncalls

mgrVars == <<taskId, branchName, configs, worktrees, branchArg>>
envVars == <<disk, symlinks, untracked, edits, ahead, remote, usedBranches>>
callVars == <<call, loc, cl, rollback, pendingErr, ret, cleanupResult, workspace, pushResults>>
prVars == <<prIn, pr, prRet>>
execVars == <<params, epc, agentOut, execErr, item, io>>
clientVars == <<created, ncalls>>
outerVars == <<prVars, execVars, clientVars>>
vars == <<mgrVars, envVars, callVars, prVars, execVars, clientVars>>

\* ------------------------------------------------------------------ errors
NoErr == [kind |-> "none", repo |-> 0, at |-> "none", ctx |-> "none"]

WorktreeError(repoKey, at, ctx) ==
    [kind |-> "WorktreeError", repo |-> repoKey, at |-> at, ctx |-> ctx]

\* an exception of the git client or of fs, passed on as it is
RawError(at) == [kind |-> "Error", repo |-> 0, at |-> at, ctx |-> "none"]

\* ------------------------------------------------------------------ data
RepoConfig(name, provider) ==
    [repoName |-> name, repoPath |-> <<"/src", name>>,
     worktreesBase |-> WorktreesBase, gitProvider |-> provider,
     remoteOwner |-> "org", remoteRepo |-> name]

ConfigOf(name) == configs[name]

\* a path that leaves the task id out
WorktreePathWithoutTask(cfg, tid) == <<cfg.worktreesBase, cfg.repoName>>

\* path.join(config.worktreesBase, config.repoName, this.taskId)
WorktreePath(cfg, tid) == <<cfg.worktreesBase, cfg.repoName, tid>>

AutoBranchName(tid) == "agent/" \o tid

\* a constructor that ignores the caller's name
ConstructBranchNameAlwaysAuto(arg, tid) == AutoBranchName(tid)

\* this.branchName = branchName || `agent/${this.taskId}`
ConstructBranchName(arg, tid) == IF arg # "" THEN arg ELSE AutoBranchName(tid)

NoWorkspace ==
    [taskId |-> "", branchName |-> "", worktrees |-> <<>>, workingDir |-> <<>>,
     configs |-> <<>>]

\* a workingDir left undefined when there is no primary worktree
WorkingDirUndefined == <<>>

\* process.cwd()
Cwd == <<"cwd">>

SeqToSet(s) == {s[i] : i \in 1..Len(s)}

\* the locals of create / commitAll / pushAll: the loop position, the position at
\* which the method threw, how the last repository's external calls went, the
\* repositories whose status was read and those committed or pushed by this call;
\* prev: the method that returned normally right before this call, with no edit
\* in between; ahead0: the repositories that were ahead when pushAll started;
\* adds, deletes: the 'worktree add' and 'branch -D' commands create() ran for
\* the last repository it handled
LocInit ==
    [idx |-> 1, failedAt |-> 0, lastOut |-> "none", visited |-> {}, acted |-> {},
     prev |-> "none", ahead0 |-> {}, adds |-> 0, deletes |-> 0]

\* the locals of cleanupAll: the positions of its two loops, errors.length, the
\* worktrees that were tracked when it started, those whose path it left on
\* disk, how the last removal and the last prune went, and the number of
\* fallback deletes (fs.rm calls) it made
ClInit ==
    [idx |-> 1, pidx |-> 1, errors |-> 0, tracked |-> <<>>, left |-> {},
     lastOut |-> "none", lastPrune |-> "none", fallbacks |-> 0]

NoRet == [m |-> "none", st |-> "none", err |-> NoErr]

NoParams ==
    [variant |-> "none", invalid |-> "none", repos |-> <<>>, branchName |-> "",
     baseBranch |-> "", createPR |-> FALSE]

NoAgentOut == [st |-> "none", success |-> FALSE, filesModified |-> 0]

NoItem == [st |-> "none", success |-> FALSE, err |-> NoErr, prs |-> <<>>]
Returned(m) == [m |-> m, st |-> "ok", err |-> NoErr]
Threw(m, e) == [m |-> m, st |-> "throw", err |-> e]

\* ------------------------------------------------------------------ create
CreateOutcomes ==
    {"noSource", "mkdirFail", "fetchFail", "addOk", "retryOk", "branchDelFail", "retryFail"}

\* the error createSingleWorktree throws for each way its external calls can go
CreateSingleError(cfg, out) ==
    CASE out = "noSource" -> WorktreeError(cfg.repoName, "access", "repoPath")
      [] out = "mkdirFail" -> RawError("mkdir")
      [] out = "fetchFail" -> WorktreeError(cfg.repoName, "fetch", "none")
      [] out \in {"branchDelFail", "retryFail"} ->
             WorktreeError(cfg.repoName, "worktreeAdd", "branchName+worktreePath")
      [] OTHER -> NoErr

\* how many times 'worktree add' is run
AddAttempts(out) ==
    CASE out \in {"noSource", "mkdirFail", "fetchFail"} -> 0
      [] out \in {"addOk", "branchDelFail"} -> 1
      [] OTHER -> 2

BranchDeleteIssued(out) == out \in {"retryOk", "branchDelFail", "retryFail"}

\* the first 'worktree add' threw
FirstAddFailed(out) == out \in {"retryOk", "branchDelFail", "retryFail"}

\* the second 'worktree add' was run and threw
SecondAddFailed(out) == out = "retryFail"

FetchIssued(out) == out \notin {"noSource", "mkdirFail"}

\* the branch given to 'worktree add -b'
AddBranch == branchName

\* the branch given to 'branch -D'
DeleteBranch == branchName

BranchOps(out) ==
    (IF AddAttempts(out) > 0 THEN {AddBranch} ELSE {})
    \cup (IF BranchDeleteIssued(out) THEN {DeleteBranch} ELSE {})

\* a create() whose catch block rethrows without cleanupAll
CreateCatchSkipsRollback == FALSE

\* create()'s catch block: what happens to the error of createSingleWorktree
CreateCatchRollsBack == TRUE

BeginCleanup == cl' = [ClInit EXCEPT !.tracked = worktrees]

\* status.ahead: the commits of the worktree's branch that its upstream lacks
Ahead(r) == ahead[r]

\* a call of a public method begins: fresh locals, nothing returned yet
StartCall(m) ==
    /\ call' = m
    /\ loc' = [LocInit EXCEPT !.prev = IF ret.st = "ok" THEN ret.m ELSE "none",
                              !.ahead0 = IF m = "pushAll"
                                         THEN {r \in SeqToSet(worktrees) : Ahead(r) > 0}
                                         ELSE {}]
    /\ ret' = NoRet
    /\ IF m = "cleanupAll" THEN BeginCleanup ELSE cl' = cl
    /\ pushResults' = IF m = "pushAll" THEN <<>> ELSE pushResults

CreateStep ==
    /\ call = "create"
    /\ loc.idx <= Len(configs)
    /\ \E out \in CreateOutcomes :
         LET cfg == configs[loc.idx]
             r == cfg.repoName
             e == CreateSingleError(cfg, out)
             loc1 == [loc EXCEPT !.lastOut = out,
                                 !.adds = AddAttempts(out),
                                 !.deletes = IF BranchDeleteIssued(out) THEN 1 ELSE 0]
         IN /\ usedBranches' = usedBranches \cup BranchOps(out)
            /\ IF e = NoErr
               THEN /\ worktrees' = Append(worktrees, r)
                    /\ disk' = disk \cup {WorktreePath(cfg, taskId)}
                    /\ loc' = [loc1 EXCEPT !.idx = @ + 1]
                    /\ UNCHANGED <<call, cl, rollback, pendingErr, ret>>
               ELSE /\ loc' = [loc1 EXCEPT !.failedAt = loc.idx]
                    /\ UNCHANGED <<worktrees, disk>>
                    /\ IF CreateCatchRollsBack
                       THEN /\ call' = "cleanupAll"
                            /\ rollback' = TRUE
                            /\ pendingErr' = e
                            /\ BeginCleanup
                            /\ UNCHANGED ret
                       ELSE /\ call' = "idle"
                            /\ ret' = Threw("create", e)
                            /\ UNCHANGED <<cl, rollback, pendingErr>>
    /\ UNCHANGED <<taskId, branchName, configs, branchArg>>
    /\ UNCHANGED <<symlinks, untracked, edits, ahead, remote>>
    /\ UNCHANGED <<cleanupResult, workspace, pushResults, outerVars>>

PrimaryRepo == configs[1].repoName

\* the repositories createCrossRepoSymlinks tries to link into the primary worktree
LinkCandidates ==
    IF Len(configs) <= 1 \/ PrimaryRepo \notin SeqToSet(worktrees)
    THEN {}
    ELSE {configs[i].repoName : i \in 2..Len(configs)} \cap SeqToSet(worktrees)

\* a link put into the other repository's worktree, pointing at the primary one
SymlinkInOtherWorktree(r) ==
    [linkDir |-> WorktreePath(ConfigOf(r), taskId),
     name |-> PrimaryRepo,
     target |-> WorktreePath(configs[1], taskId)]

\* fs.symlink(otherPath, path.join(primaryPath, config.repoName), 'dir')
SymlinkFor(r) ==
    [linkDir |-> WorktreePath(configs[1], taskId),
     name |-> r,
     target |-> WorktreePath(ConfigOf(r), taskId)]

BuildWorkspace ==
    [taskId |-> taskId,
     branchName |-> branchName,
     worktrees |-> [i \in 1..Len(worktrees) |->
                      [key |-> worktrees[i], path |-> WorktreePath(ConfigOf(worktrees[i]), taskId)]],
     workingDir |-> IF Len(configs) > 0 /\ PrimaryRepo \in SeqToSet(worktrees)
                    THEN WorktreePath(configs[1], taskId)
                    ELSE Cwd,
     configs |-> [i \in 1..Len(worktrees) |->
                      [key |-> worktrees[i], config |-> ConfigOf(worktrees[i])]]]

\* after the loop: the symlinks (each may fail, silently) and the returned Workspace
CreateFinish ==
    /\ call = "create"
    /\ loc.idx > Len(configs)
    /\ \E made \in SUBSET LinkCandidates :
         /\ symlinks' = symlinks \cup {SymlinkFor(r) : r \in made}
         /\ untracked' = untracked \cup made
    /\ workspace' = BuildWorkspace
    /\ call' = "idle"
    /\ ret' = Returned("create")
    /\ UNCHANGED <<mgrVars, disk, edits, ahead, remote, usedBranches>>
    /\ UNCHANGED <<loc, cl, rollback, pendingErr, cleanupResult, pushResults, outerVars>>

\* ------------------------------------------------------------------ commitAll
\* status.files of a worktree: the agent's edits and, in the primary worktree, the
\* links create() put there, which git reports as untracked files
StatusFiles(r) ==
    Cardinality(edits[r]) + (IF Len(configs) > 0 /\ r = PrimaryRepo THEN Cardinality(untracked) ELSE 0)

\* a commitAll that commits whatever status says
ShouldCommitAlways(files) == files >= 0

\* the condition under which commitAll stages and commits
ShouldCommit(files) == files > 0

CommitOutcomes(r) ==
    {"ok", "statusFail"} \cup (IF ShouldCommit(StatusFiles(r)) THEN {"addFail", "commitFail"} ELSE {})

CommitError(out) ==
    CASE out = "statusFail" -> RawError("status")
      [] out = "addFail" -> RawError("add")
      [] out = "commitFail" -> RawError("commit")
      [] OTHER -> NoErr

CommitStep ==
    /\ call = "commitAll"
    /\ loc.idx <= Len(worktrees)
    /\ LET r == worktrees[loc.idx] IN
       \E out \in CommitOutcomes(r) :
         LET e == CommitError(out) IN
         IF e # NoErr
         THEN /\ call' = "idle"
              /\ ret' = Threw("commitAll", e)
              /\ loc' = [loc EXCEPT !.failedAt = loc.idx, !.lastOut = out,
                                    !.visited = IF out = "statusFail" THEN @ ELSE @ \cup {r}]
              /\ UNCHANGED <<edits, untracked, ahead>>
         ELSE /\ IF ShouldCommit(StatusFiles(r))
                 THEN /\ edits' = [edits EXCEPT ![r] = {}]
                      /\ untracked' = IF r = PrimaryRepo THEN {} ELSE untracked
                      /\ ahead' = [ahead EXCEPT ![r] = @ + 1]
                      /\ loc' = [loc EXCEPT !.idx = @ + 1, !.lastOut = out,
                                            !.visited = @ \cup {r}, !.acted = @ \cup {r}]
                 ELSE /\ loc' = [loc EXCEPT !.idx = @ + 1, !.lastOut = out,
                                            !.visited = @ \cup {r}]
                      /\ UNCHANGED <<edits, untracked, ahead>>
              /\ UNCHANGED <<call, ret>>
    /\ UNCHANGED <<mgrVars, disk, symlinks, remote, usedBranches>>
    /\ UNCHANGED <<cl, rollback, pendingErr, cleanupResult, workspace, pushResults, outerVars>>

CommitFinish ==
    /\ call = "commitAll"
    /\ loc.idx > Len(worktrees)
    /\ call' = "idle"
    /\ ret' = Returned("commitAll")
    /\ UNCHANGED <<mgrVars, envVars, outerVars>>
    /\ UNCHANGED <<loc, cl, rollback, pendingErr, cleanupResult, workspace, pushResults>>

\* ------------------------------------------------------------------ pushAll
\* a pushAll that pushes every worktree
ShouldPushAlways(aheadCount) == aheadCount >= 0

\* the condition under which pushAll pushes a worktree
ShouldPush(aheadCount) == aheadCount > 0

\* a pushAll that derives the branch from the task id, as the earlier variant did
PushBranchFromTaskId == AutoBranchName(taskId)

\* the branch pushAll pushes and reports
PushBranch == branchName

PushOutcomes(r) ==
    {"ok", "statusFail"} \cup (IF ShouldPush(Ahead(r)) THEN {"pushFail"} ELSE {})

\* pushAll wraps a failed push in a WorktreeError; a failed status is not wrapped
PushError(r, out) ==
    CASE out = "statusFail" -> RawError("status")
      [] out = "pushFail" -> WorktreeError(r, "push", "none")
      [] OTHER -> NoErr

\* a pushAll that logs a failed push and goes on
PushCatchContinue(e) == NoErr

\* what pushAll does with the error of a failed push
PushCatch(e) == e

PushStep ==
    /\ call = "pushAll"
    /\ loc.idx <= Len(worktrees)
    /\ LET r == worktrees[loc.idx] IN
       \E out \in PushOutcomes(r) :
         LET e == IF out = "pushFail" THEN PushCatch(PushError(r, out)) ELSE PushError(r, out)
             tried == ShouldPush(Ahead(r)) /\ out # "statusFail"
             loc1 == [loc EXCEPT !.lastOut = out,
                                 !.visited = IF out = "statusFail" THEN @ ELSE @ \cup {r},
                                 !.acted = IF tried THEN @ \cup {r} ELSE @]
         IN
         /\ usedBranches' = IF tried THEN usedBranches \cup {PushBranch}
                            ELSE usedBranches
         /\ IF e # NoErr
            THEN /\ call' = "idle"
                 /\ ret' = Threw("pushAll", e)
                 /\ loc' = [loc1 EXCEPT !.failedAt = loc.idx]
                 /\ UNCHANGED <<ahead, remote, pushResults>>
            ELSE /\ IF tried /\ out = "ok"
                    THEN /\ remote' = remote \cup {r}
                         /\ ahead' = [ahead EXCEPT ![r] = 0]
                         /\ pushResults' = Append(pushResults,
                                [key |-> r, branch |-> PushBranch, config |-> ConfigOf(r)])
                    ELSE UNCHANGED <<ahead, remote, pushResults>>
                 /\ loc' = [loc1 EXCEPT !.idx = @ + 1]
                 /\ UNCHANGED <<call, ret>>
    /\ UNCHANGED <<mgrVars, disk, symlinks, untracked, edits>>
    /\ UNCHANGED <<cl, rollback, pendingErr, cleanupResult, workspace, outerVars>>

PushFinish ==
    /\ call = "pushAll"
    /\ loc.idx > Len(worktrees)
    /\ call' = "idle"
    /\ ret' = Returned("pushAll")
    /\ UNCHANGED <<mgrVars, envVars, outerVars>>
    /\ UNCHANGED <<loc, cl, rollback, pendingErr, cleanupResult, workspace, pushResults>>

\* ------------------------------------------------------------------ cleanupAll
\* removed:     'worktree remove --force' succeeded
\* deleted:     it failed, fs.rm succeeded, fs.access then fails (path gone)
\* stillExists: it failed, fs.rm returned, fs.access succeeds (path still there)
\* rmFailed:    it failed and fs.rm threw
RemoveOutcomes == {"removed", "deleted", "stillExists", "rmFailed"}

\* The error cleanupSingleWorktree throws. The 'still exists' WorktreeError is
\* thrown inside the inner try, whose bare catch swallows it.
CleanupSingleError(r, out) ==
    IF out = "rmFailed" THEN WorktreeError(r, "rm", "path") ELSE NoErr

\* a fallback that deletes nothing
GoneOnlyWhenRemoved(out) == out = "removed"

\* the fallback delete is issued when 'worktree remove --force' failed
FallbackIssued(out) == out # "removed"

\* a cleanupAll whose loop lets the error of cleanupSingleWorktree through
CleanupLoopRethrow(e) == e

\* cleanupAll's catch around cleanupSingleWorktree: the error it lets escape
CleanupLoopCatch(e) == NoErr

\* a cleanupAll that lets the error of 'worktree prune' through
PruneRethrow(e) == e

\* cleanupAll's catch around 'worktree prune'
PruneCatch(e) == NoErr

GoneFromDisk(out) == out \in {"removed", "deleted"}

\* cleanupAll ends, normally or not; inside create()'s catch block create then
\* throws (its own error after a normal end, since 'throw error' follows the await)
EndCleanup(escaped) ==
    /\ call' = "idle"
    /\ cleanupResult' = [st |-> IF escaped = NoErr THEN "ok" ELSE "throw",
                         warned |-> IF escaped = NoErr THEN cl'.errors ELSE 0,
                         inRollback |-> rollback]
    /\ rollback' = FALSE
    /\ pendingErr' = NoErr
    /\ ret' = IF rollback
              THEN Threw("create", IF escaped = NoErr THEN pendingErr ELSE escaped)
              ELSE IF escaped = NoErr THEN Returned("cleanupAll")
                   ELSE Threw("cleanupAll", escaped)

CleanupRemoveStep ==
    /\ call = "cleanupAll"
    /\ cl.idx <= Len(worktrees)
    /\ LET r == worktrees[cl.idx]
           p == WorktreePath(ConfigOf(r), taskId)
       IN \E out \in RemoveOutcomes :
            LET e == CleanupSingleError(r, out)
                escaped == IF e = NoErr THEN NoErr ELSE CleanupLoopCatch(e)
            IN /\ disk' = IF GoneFromDisk(out) THEN disk \ {p} ELSE disk
               /\ symlinks' = IF GoneFromDisk(out) /\ r = PrimaryRepo THEN {} ELSE symlinks
               /\ untracked' = IF GoneFromDisk(out) /\ r = PrimaryRepo THEN {} ELSE untracked
               /\ cl' = [cl EXCEPT !.idx = @ + 1,
                                   !.errors = IF e = NoErr THEN @ ELSE @ + 1,
                                   !.left = IF GoneFromDisk(out) THEN @ ELSE @ \cup {r},
                                   !.fallbacks = IF FallbackIssued(out) THEN @ + 1 ELSE @,
                                   !.lastOut = out]
               /\ IF escaped = NoErr
                  THEN UNCHANGED <<call, rollback, pendingErr, ret, cleanupResult>>
                  ELSE EndCleanup(escaped)
    /\ UNCHANGED <<mgrVars, edits, ahead, remote, usedBranches>>
    /\ UNCHANGED <<loc, workspace, pushResults, outerVars>>

CleanupPruneStep ==
    /\ call = "cleanupAll"
    /\ cl.idx > Len(worktrees)
    /\ cl.pidx <= Len(worktrees)
    /\ \E ok \in BOOLEAN :
         LET e == IF ok THEN NoErr ELSE RawError("prune")
             escaped == IF e = NoErr THEN NoErr ELSE PruneCatch(e)
         IN /\ cl' = [cl EXCEPT !.pidx = @ + 1,
                                !.lastPrune = IF ok THEN "ok" ELSE "failed"]
            /\ IF escaped = NoErr
               THEN UNCHANGED <<call, rollback, pendingErr, ret, cleanupResult>>
               ELSE EndCleanup(escaped)
    /\ UNCHANGED <<mgrVars, envVars, loc, workspace, pushResults, outerVars>>

\* a cleanupAll that leaves this.worktrees as it is
WorktreesKept == worktrees

\* this.worktrees after this.worktrees.clear()
WorktreesCleared == <<>>

\* this.worktrees.clear(), then the warning summary
CleanupFinish ==
    /\ call = "cleanupAll"
    /\ cl.idx > Len(worktrees)
    /\ cl.pidx > Len(worktrees)
    /\ worktrees' = WorktreesCleared
    /\ cl' = cl
    /\ EndCleanup(NoErr)
    /\ UNCHANGED <<taskId, branchName, configs, branchArg>>
    /\ UNCHANGED <<envVars, loc, workspace, pushResults, outerVars>>

\* getWorktree(repoKey): the entry, as a set of at most one, empty for undefined
getWorktree(r) ==
    IF r \in SeqToSet(worktrees)
    THEN {[path |-> WorktreePath(ConfigOf(r), taskId), config |-> ConfigOf(r)]}
    ELSE {}

\* ------------------------------------------------------------------ a caller
\* A caller of the manager's public methods, in any order; the agent's edits
\* happen between calls. ret holds what the last method returned until the next
\* call or edit.
ClientCall(m) ==
    /\ call = "idle"
    /\ ncalls < MaxCalls
    /\ ncalls' = ncalls + 1
    /\ StartCall(m)
    /\ UNCHANGED <<mgrVars, envVars, rollback, pendingErr, cleanupResult, workspace>>
    /\ UNCHANGED <<prVars, execVars>>

ClientCreate ==
    /\ ~created
    /\ ClientCall("create")
    /\ created' = TRUE

ClientCommitAll ==
    /\ ClientCall("commitAll")
    /\ UNCHANGED created

ClientPushAll ==
    /\ ClientCall("pushAll")
    /\ UNCHANGED created

ClientCleanupAll ==
    /\ ClientCall("cleanupAll")
    /\ UNCHANGED created

\* the agent (or anything else) changes a file in a worktree that is on disk
AgentEdit ==
    /\ call = "idle"
    /\ epc = "client"
    /\ \E i \in 1..Len(worktrees) :
         LET r == worktrees[i] IN
         /\ WorktreePath(ConfigOf(r), taskId) \in disk
         /\ \E f \in Files \ edits[r] : edits' = [edits EXCEPT ![r] = @ \cup {f}]
    /\ ret' = NoRet
    /\ UNCHANGED <<mgrVars, disk, symlinks, untracked, ahead, remote, usedBranches>>
    /\ UNCHANGED <<call, loc, cl, rollback, pendingErr, cleanupResult, workspace, pushResults>>
    /\ UNCHANGED outerVars

\* ------------------------------------------------------------------ PR providers
MaxPRRepos == 3

PRBodies == {"agent output"}
PlaceholderBody == "Creating PR... (will update with links)"

\* the branch names a caller may hand to createMultiRepoPRs; the second one does
\* not start with a letter or digit
PRBranches == {"feature/x", "-x"}

\* GIT_BRANCH_PATTERN and the checks after it, on the names used here
MAX_BRANCH_NAME_LENGTH == 255

\* the characters of the names used here; a task id is the first eight
\* characters of a UUID, a generated branch is agent/ followed by them
Spell(name) ==
    CASE name = "" -> <<>>
      [] name = "main" -> <<"m", "a", "i", "n">>
      [] name = "feature/x" -> <<"f", "e", "a", "t", "u", "r", "e", "/", "x">>
      [] name = "-x" -> <<"-", "x">>
      [] name = "a1b2c3d4" -> <<"a", "1", "b", "2", "c", "3", "d", "4">>
      [] name \in {AutoBranchName(tid) : tid \in TaskIds} ->
             <<"a", "g", "e", "n", "t", "/">> \o
               <<"a", "1", "b", "2", "c", "3", "d", "4">>
      [] OTHER -> <<"?">>

\* validateBranchName on the characters of a name: it returns, or it throws
SpellingAccepted(cs) ==
    LET \* [a-zA-Z0-9], as far as the names used here go
        alnum == {"a", "b", "c", "d", "e", "f", "g", "i", "m", "n", "r", "t",
                  "u", "x", "1", "2", "3", "4"}
        \* GIT_BRANCH_PATTERN: ^[a-zA-Z0-9][a-zA-Z0-9._\/-]*$
        matches == /\ cs[1] \in alnum
                   /\ \A i \in 1..Len(cs) : cs[i] \in alnum \cup {".", "_", "/", "-"}
        \* includes('..') || startsWith('/') || endsWith('/')
        dangerous == \/ \E i \in 1..(Len(cs) - 1) : cs[i] = "." /\ cs[i + 1] = "."
                     \/ cs[1] = "/"
                     \/ cs[Len(cs)] = "/"
    IN \/ Len(cs) = 0
       \/ /\ Len(cs) <= MAX_BRANCH_NAME_LENGTH
          /\ matches
          /\ ~dangerous

BranchNameAccepted(name) == SpellingAccepted(Spell(name))

\* the provider CLI's standard output, as the pieces the two patterns can match:
\* "PR #n" in upper or lower case, a bare "#n", other text
Stdouts ==
    {<<>>,
     <<[t |-> "#", n |-> 5], [t |-> "#", n |-> 6]>>,
     <<[t |-> "#", n |-> 5], [t |-> "pr#", n |-> 7]>>}

MinOf(S) == CHOOSE x \in S : \A y \in S : x <= y

\* a first pattern without the i flag
ParsePRNumberCaseSensitive(stdout) ==
    LET prAt == {i \in 1..Len(stdout) : stdout[i].t = "PR#"}
        hashAt == {i \in 1..Len(stdout) : stdout[i].t \in {"PR#", "pr#", "#"}}
    IN IF prAt # {} THEN stdout[MinOf(prAt)].n
       ELSE IF hashAt # {} THEN stdout[MinOf(hashAt)].n
       ELSE 0

\* stdout.match(/PR #(\d+)/i) || stdout.match(/#(\d+)/), else 0
ParsePRNumber(stdout) ==
    LET prAt == {i \in 1..Len(stdout) : stdout[i].t \in {"PR#", "pr#"}}
        hashAt == {i \in 1..Len(stdout) : stdout[i].t \in {"PR#", "pr#", "#"}}
    IN IF prAt # {} THEN stdout[MinOf(prAt)].n
       ELSE IF hashAt # {} THEN stdout[MinOf(hashAt)].n
       ELSE 0

GetProvider(cfg) ==
    CASE cfg.gitProvider = "gitea" -> "GiteaProvider"
      [] cfg.gitProvider = "github" -> "GitHubProvider"
      [] OTHER -> "NoOpProvider"

ProviderName(cls) ==
    CASE cls = "GiteaProvider" -> "gitea"
      [] cls = "GitHubProvider" -> "github"
      [] OTHER -> "none"

PRUrl(cls, cfg, number) ==
    [host |-> IF cls = "GiteaProvider" THEN "gitea.devops.methode5.at" ELSE "github.com",
     repoPath |-> <<cfg.remoteOwner, cfg.remoteRepo>>,
     segment |-> IF cls = "GiteaProvider" THEN "pulls" ELSE "pull",
     number |-> number]

PRCreationError(provider, ctx) ==
    [kind |-> "PRCreationError", repo |-> 0, at |-> provider, ctx |-> ctx]

ValidationError(field) ==
    [kind |-> "ValidationError", repo |-> 0, at |-> field, ctx |-> "none"]

\* the CLI call of createPR: it fails, or it prints one of Stdouts
CreatePROutcomes ==
    {[ok |-> FALSE, stdout |-> <<>>]} \cup {[ok |-> TRUE, stdout |-> o] : o \in Stdouts}

\* provider.createPR runs its CLI after both names passed validateBranchName;
\* the NoOp provider runs nothing
CliInvoked(cls, branch, baseBranch) ==
    /\ cls # "NoOpProvider"
    /\ BranchNameAccepted(branch)
    /\ BranchNameAccepted(baseBranch)

\* a createPR that the NoOp provider answers like the others
ProviderCreateErrorNoOpReturns(cls, branch, baseBranch, out) ==
    CASE ~BranchNameAccepted(branch) \/ ~BranchNameAccepted(baseBranch) ->
             ValidationError("branchName")
      [] ~out.ok -> PRCreationError(ProviderName(cls), "cli")
      [] OTHER -> NoErr

\* provider.createPR: the error it throws, NoErr when it returns a PRResult
ProviderCreateError(cls, branch, baseBranch, out) ==
    CASE cls = "NoOpProvider" -> PRCreationError("none", "disabled")
      [] ~BranchNameAccepted(branch) \/ ~BranchNameAccepted(baseBranch) ->
             ValidationError("branchName")
      [] ~out.ok -> PRCreationError(ProviderName(cls), "cli")
      [] OTHER -> NoErr

ProviderCreateResult(cls, cfg, out) ==
    [repoName |-> cfg.repoName,
     url |-> PRUrl(cls, cfg, ParsePRNumber(out.stdout)),
     number |-> ParsePRNumber(out.stdout),
     provider |-> ProviderName(cls)]

\* ------------------------------------------------------------------ createMultiRepoPRs
NoPrIn == [taskId |-> "", repos |-> <<>>, baseBranch |-> "", body |-> ""]

\* an early return that appends the "Related PRs" section to the body
DescriptionWithHeader(body) ==
    [body |-> body, related |-> TRUE, taskId |-> "", entries |-> <<>>]

\* options.body as it is
PlainDescription(body) ==
    [body |-> body, related |-> FALSE, taskId |-> "", entries |-> <<>>]

\* options.body, the "Related PRs" header, the task id and one line per created PR
LinkedDescription(body, tid, created_prs) ==
    [body |-> body, related |-> TRUE, taskId |-> tid,
     entries |-> [i \in 1..Len(created_prs) |->
                    [repoName |-> created_prs[i].repoName, number |-> created_prs[i].number,
                     url |-> created_prs[i].url, provider |-> created_prs[i].provider]]]

\* the locals of createMultiRepoPRs; attempted: the createPR calls made, in order,
\* and whether each returned; updates: the updatePRBody calls made, in order;
\* bodies: the body each created PR has at its provider, in the order of prs
PrIdle ==
    [pc |-> "idle", idx |-> 1, prs |-> <<>>, desc |-> PlainDescription(""),
     attempted |-> <<>>, updates |-> <<>>, lastUpdate |-> "none", bodies |-> <<>>]

PrStart == [PrIdle EXCEPT !.pc = "create"]

NoPrRet == [st |-> "none", prs |-> <<>>, linkedDescription |-> PlainDescription(""), err |-> NoErr]

\* options.repos.get(repoName): the positions holding that key
RepoDataAt(key) == {i \in 1..Len(prIn.repos) : prIn.repos[i].key = key}

\* a first pass that skips no repository
SkipsNoRepository(cfg) == FALSE

\* config.gitProvider === 'none': the first pass moves on without calling anything
SkipsPRCreation(cfg) == cfg.gitProvider = "none"

\* a first pass that lets the provider's error through
CreateCatchRethrow(e) == e

\* the catch around provider.createPR in the first pass: the error it lets escape
CreateCatch(e) == NoErr

\* a first pass that counts as over once the first repository is done
FirstPassDoneAfterOne(idx, n) == idx > 1

\* the first pass is over when the loop has gone through every entry
FirstPassDone(idx, n) == idx > n

\* a second pass that only knows the Gitea provider
SupportsBodyUpdateGiteaOnly(cls) == cls = "GiteaProvider"

\* provider instanceof GiteaProvider || provider instanceof GitHubProvider
SupportsBodyUpdate(cls) == cls \in {"GiteaProvider", "GitHubProvider"}

\* an updatePRBody that lets the error of the CLI call through
UpdateBodyCatchRethrow(e) == e

\* updatePRBody's own catch: the error it lets escape
UpdateBodyCatch(e) == NoErr

PRThrow(e) ==
    /\ pr' = [pr EXCEPT !.pc = "idle"]
    /\ prRet' = [st |-> "throw", prs |-> <<>>, linkedDescription |-> PlainDescription(""),
                 err |-> e]

\* repoList.length === 0
PRReturnEmpty ==
    /\ pr.pc = "create"
    /\ Len(prIn.repos) = 0
    /\ pr' = [pr EXCEPT !.pc = "idle"]
    /\ prRet' = [st |-> "ok", prs |-> <<>>, linkedDescription |-> PlainDescription(prIn.body),
                 err |-> NoErr]
    /\ UNCHANGED <<prIn, mgrVars, envVars, callVars, execVars, clientVars>>

\* one iteration of the first pass
PRCreateStep ==
    /\ pr.pc = "create"
    /\ pr.idx <= Len(prIn.repos)
    /\ LET entry == prIn.repos[pr.idx]
           cfg == entry.config
       IN IF SkipsPRCreation(cfg)
          THEN /\ pr' = [pr EXCEPT !.idx = @ + 1]
               /\ UNCHANGED prRet
          ELSE \E out \in CreatePROutcomes :
                 LET cls == GetProvider(cfg)
                     e == ProviderCreateError(cls, entry.branch, prIn.baseBranch, out)
                     escaped == IF e = NoErr THEN NoErr ELSE CreateCatch(e)
                     called == [repoName |-> cfg.repoName, ok |-> e = NoErr, why |-> e.kind,
                               stdout |-> IF e = NoErr THEN out.stdout ELSE <<>>]
                 IN IF escaped # NoErr
                    THEN PRThrow(escaped)
                    ELSE /\ pr' = [pr EXCEPT
                                     !.idx = @ + 1,
                                     !.attempted = Append(@, called),
                                     !.prs = IF e = NoErr
                                             THEN Append(@, ProviderCreateResult(cls, cfg, out))
                                             ELSE @,
                                     !.bodies = IF e = NoErr
                                                THEN Append(@, PlainDescription(PlaceholderBody))
                                                ELSE @]
                         /\ UNCHANGED prRet
    /\ UNCHANGED <<prIn, mgrVars, envVars, callVars, execVars, clientVars>>

\* between the passes: the shared description
PRBuildDescription ==
    /\ pr.pc = "create"
    /\ Len(prIn.repos) > 0
    /\ FirstPassDone(pr.idx, Len(prIn.repos))
    /\ pr' = [pr EXCEPT !.pc = "update", !.idx = 1,
                        !.desc = LinkedDescription(prIn.body, prIn.taskId, pr.prs)]
    /\ UNCHANGED <<prIn, prRet, mgrVars, envVars, callVars, execVars, clientVars>>

\* one iteration of the second pass
PRUpdateStep ==
    /\ pr.pc = "update"
    /\ pr.idx <= Len(pr.prs)
    /\ LET p == pr.prs[pr.idx]
           at == RepoDataAt(p.repoName)
       IN IF at = {} \/ ~SupportsBodyUpdate(GetProvider(prIn.repos[MinOf(at)].config))
          THEN /\ pr' = [pr EXCEPT !.idx = @ + 1]
               /\ UNCHANGED prRet
          ELSE \E ok \in BOOLEAN :
                 LET e == IF ok THEN NoErr ELSE RawError("raw:patch")
                     escaped == IF e = NoErr THEN NoErr ELSE UpdateBodyCatch(e)
                     sent == [repoName |-> p.repoName, number |-> p.number, body |-> pr.desc,
                              ok |-> ok]
                 IN IF escaped # NoErr
                    THEN PRThrow(escaped)
                    ELSE /\ pr' = [pr EXCEPT !.idx = @ + 1,
                                             !.updates = Append(@, sent),
                                             !.lastUpdate = IF ok THEN "ok" ELSE "failed",
                                             !.bodies = IF ok
                                                        THEN [@ EXCEPT ![pr.idx] = pr.desc]
                                                        ELSE @]
                         /\ UNCHANGED prRet
    /\ UNCHANGED <<prIn, mgrVars, envVars, callVars, execVars, clientVars>>

PRReturn ==
    /\ pr.pc = "update"
    /\ pr.idx > Len(pr.prs)
    /\ pr' = [pr EXCEPT !.pc = "idle"]
    /\ prRet' = [st |-> "ok", prs |-> pr.prs, linkedDescription |-> pr.desc, err |-> NoErr]
    /\ UNCHANGED <<prIn, mgrVars, envVars, callVars, execVars, clientVars>>

PRSteps ==
    \/ PRReturnEmpty
    \/ PRCreateStep
    \/ PRBuildDescription
    \/ PRUpdateStep
    \/ PRReturn

\* ------------------------------------------------------------------ ClaudeAgent.execute
\* The two current bodies of execute: one runs the agent in a temporary directory
\* when no repository is configured, one rejects an empty repository list.
ExecVariants == {"promptOnlyCapable", "reposRequired"}

\* parameters that fail a validator other than validateBranchName
InvalidKinds == {"none", "prompt", "timeout", "maxTurns", "repoConfig"}

ParamBranches == CallerBranches \cup {"-x"}
ParamBaseBranches == BaseBranches \cup {"-x"}

FilesModifiedCounts == {0, 1}

NodeOperationError(at) ==
    [kind |-> "NodeOperationError", repo |-> 0, at |-> at, ctx |-> "none"]

AgentNotFoundError == [kind |-> "AgentNotFoundError", repo |-> 0, at |-> "loadAgent", ctx |-> "none"]

\* the first validator that rejects the parameters, in the order they are called
InputValidationFailure(p) ==
    CASE p.invalid = "prompt" -> "prompt"
      [] ~BranchNameAccepted(p.branchName) -> "branchName"
      [] ~BranchNameAccepted(p.baseBranch) -> "baseBranch"
      [] p.invalid = "timeout" -> "timeout"
      [] p.invalid = "maxTurns" -> "maxTurns"
      [] OTHER -> "none"

\* the catch around one item: an error item when this.continueOnFail() says so,
\* else execute throws
ExecThrow(e) ==
    /\ epc' = "done"
    /\ \E continueOnFail \in BOOLEAN :
         item' = [st |-> IF continueOnFail THEN "errorItem" ELSE "thrown",
                  success |-> FALSE, err |-> e, prs |-> <<>>]

ExecProceed(next) ==
    /\ epc' = next
    /\ item' = item

\* a finally block that only runs when the try block ended normally
CleanupOnSuccessOnly(e) == e = NoErr

\* the finally block around the agent run: whether cleanupAll is called, given the
\* error the try block ended with (NoErr: none)
CleanupOnExit(e) == TRUE

ExecValidate ==
    /\ epc = "start"
    /\ LET f == InputValidationFailure(params)
       IN IF f # "none"
          THEN ExecThrow(NodeOperationError(f))
          ELSE ExecProceed(IF params.variant = "reposRequired"
                           THEN "buildConfigs" ELSE "loadAgent")
    /\ UNCHANGED <<params, agentOut, execErr, io>>
    /\ UNCHANGED <<mgrVars, envVars, callVars, prVars, clientVars>>

\* the repository list is checked and turned into RepoConfigs
ExecBuildConfigs ==
    /\ epc = "buildConfigs"
    /\ IF Len(params.repos) = 0
       THEN ExecThrow(NodeOperationError("repositories"))
       ELSE IF params.invalid = "repoConfig"
            THEN ExecThrow(NodeOperationError("repoConfig"))
            ELSE ExecProceed(IF params.variant = "reposRequired"
                             THEN "loadAgent" ELSE "construct")
    /\ UNCHANGED <<params, agentOut, execErr, io>>
    /\ UNCHANGED <<mgrVars, envVars, callVars, prVars, clientVars>>

\* loadAgent reads the agent definition file
ExecLoadAgent ==
    /\ epc = "loadAgent"
    /\ io' = io \cup {"agentFile"}
    /\ \E found \in BOOLEAN :
         IF ~found
         THEN ExecThrow(AgentNotFoundError)
         ELSE ExecProceed(IF params.variant = "reposRequired" THEN "construct"
                          ELSE IF Len(params.repos) = 0 THEN "promptOnly"
                          ELSE "buildConfigs")
    /\ UNCHANGED <<params, agentOut, execErr>>
    /\ UNCHANGED <<mgrVars, envVars, callVars, prVars, clientVars>>

AgentOutcomes == {"threw", "failed", "ok"}

\* prompt-only mode: a temporary directory, the agent, the directory's removal
ExecPromptOnly ==
    /\ epc = "promptOnly"
    /\ io' = io \cup {"tempDir"}
    /\ \E out \in AgentOutcomes \cup {"mkdtempFail"} :
         IF out \in {"mkdtempFail", "threw"}
         THEN /\ ExecThrow(RawError(out))
              /\ UNCHANGED agentOut
         ELSE /\ agentOut' = [st |-> "returned", success |-> out = "ok", filesModified |-> 0]
              /\ epc' = "done"
              /\ item' = [st |-> "result", success |-> out = "ok", err |-> NoErr, prs |-> <<>>]
    /\ UNCHANGED <<params, execErr>>
    /\ UNCHANGED <<mgrVars, envVars, callVars, prVars, clientVars>>

\* new MultiRepoWorktreeManager(repoConfigs, branchName || undefined), then
\* the call of create(baseBranch)
ExecConstructAndCreate ==
    /\ epc = "construct"
    /\ taskId' \in TaskIds
    /\ branchArg' = params.branchName
    /\ branchName' = ConstructBranchName(params.branchName, taskId')
    /\ configs' = [i \in 1..Len(params.repos) |->
                     RepoConfig(params.repos[i].repoName, params.repos[i].gitProvider)]
    /\ worktrees' = <<>>
    /\ created' = TRUE
    /\ StartCall("create")
    /\ epc' = "creating"
    /\ io' = io \cup {"git"}
    /\ UNCHANGED <<envVars, rollback, pendingErr, cleanupResult, workspace>>
    /\ UNCHANGED <<prVars, params, agentOut, execErr, item, ncalls>>

\* create() has returned the workspace or thrown
ExecAfterCreate ==
    /\ epc = "creating"
    /\ call = "idle"
    /\ IF ret.st = "throw" THEN ExecThrow(ret.err) ELSE ExecProceed("agent")
    /\ UNCHANGED <<params, agentOut, execErr, io>>
    /\ UNCHANGED <<mgrVars, envVars, callVars, prVars, clientVars>>

\* executeAgent: the agent edits files in the worktrees; the call returns a result
\* (success or not, with the files its hooks recorded) or throws
ExecRunAgent ==
    /\ epc = "agent"
    /\ \E out \in AgentOutcomes, n \in FilesModifiedCounts, e \in [Repos -> SUBSET Files] :
         /\ \A r \in Repos : r \notin SeqToSet(worktrees) => e[r] = {}
         /\ edits' = [r \in Repos |-> edits[r] \cup e[r]]
         /\ IF out = "threw"
            THEN /\ execErr' = RawError("executeAgent")
                 /\ epc' = "finally"
                 /\ UNCHANGED agentOut
            ELSE /\ agentOut' = [st |-> "returned", success |-> out = "ok", filesModified |-> n]
                 /\ epc' = "afterAgent"
                 /\ UNCHANGED execErr
    /\ UNCHANGED <<params, item, io>>
    /\ UNCHANGED <<mgrVars, disk, symlinks, untracked, ahead, remote, usedBranches>>
    /\ UNCHANGED <<callVars, prVars, clientVars>>

ExecCall(m, next) ==
    /\ StartCall(m)
    /\ epc' = next
    /\ UNCHANGED <<mgrVars, envVars, rollback, pendingErr, cleanupResult, workspace>>
    /\ UNCHANGED <<prVars, clientVars, params, agentOut, execErr, item, io>>

ExecTryThrows(e) ==
    /\ execErr' = e
    /\ epc' = "finally"
    /\ UNCHANGED <<mgrVars, envVars, callVars, prVars, clientVars>>
    /\ UNCHANGED <<params, agentOut, item, io>>

ExecTryEnds ==
    /\ epc' = "finally"
    /\ UNCHANGED <<mgrVars, envVars, callVars, prVars, clientVars>>
    /\ UNCHANGED <<params, agentOut, execErr, item, io>>

\* an execute that commits and pushes whenever a PR was requested
CommitRequestedByFlag(p, out) == p.createPR

\* createPR && executionResult.filesModified.length > 0
CommitRequested(p, out) == p.createPR /\ out.filesModified > 0

ExecAfterAgent ==
    /\ epc = "afterAgent"
    /\ IF CommitRequested(params, agentOut)
       THEN ExecCall("commitAll", "committing")
       ELSE ExecTryEnds

ExecAfterCommit ==
    /\ epc = "committing"
    /\ call = "idle"
    /\ IF ret.st = "throw" THEN ExecTryThrows(ret.err) ELSE ExecCall("pushAll", "pushing")

\* pushResults.size > 0: createMultiRepoPRs is called with the map pushAll returned
ExecAfterPush ==
    /\ epc = "pushing"
    /\ call = "idle"
    /\ IF ret.st = "throw"
       THEN ExecTryThrows(ret.err)
       ELSE IF Len(pushResults) > 0
            THEN /\ prIn' = [taskId |-> workspace.taskId, repos |-> pushResults,
                             baseBranch |-> params.baseBranch, body |-> "agent output"]
                 /\ pr' = PrStart
                 /\ prRet' = NoPrRet
                 /\ epc' = "prs"
                 /\ UNCHANGED <<mgrVars, envVars, callVars, clientVars>>
                 /\ UNCHANGED <<params, agentOut, execErr, item, io>>
            ELSE ExecTryEnds

ExecAfterPRs ==
    /\ epc = "prs"
    /\ pr.pc = "idle"
    /\ IF prRet.st = "throw" THEN ExecTryThrows(prRet.err) ELSE ExecTryEnds

\* the finally block
ExecFinally ==
    /\ epc = "finally"
    /\ IF CleanupOnExit(execErr)
       THEN ExecCall("cleanupAll", "cleaning")
       ELSE /\ epc' = "cleaning"
            /\ UNCHANGED <<mgrVars, envVars, callVars, prVars, clientVars>>
            /\ UNCHANGED <<params, agentOut, execErr, item, io>>

\* after the finally block: its own error, else the try block's, else the result
ExecAfterCleanup ==
    /\ epc = "cleaning"
    /\ call = "idle"
    /\ IF ret.m = "cleanupAll" /\ ret.st = "throw"
       THEN ExecThrow(ret.err)
       ELSE IF execErr # NoErr
            THEN ExecThrow(execErr)
            ELSE /\ epc' = "done"
                 /\ item' = [st |-> "result", success |-> agentOut.success, err |-> NoErr,
                             prs |-> IF prRet.st = "ok" THEN prRet.prs ELSE <<>>]
    /\ UNCHANGED <<params, agentOut, execErr, io>>
    /\ UNCHANGED <<mgrVars, envVars, callVars, prVars, clientVars>>

ExecSteps ==
    \/ ExecValidate
    \/ ExecBuildConfigs
    \/ ExecLoadAgent
    \/ ExecPromptOnly
    \/ ExecConstructAndCreate
    \/ ExecAfterCreate
    \/ ExecRunAgent
    \/ ExecAfterAgent
    \/ ExecAfterCommit
    \/ ExecAfterPush
    \/ ExecAfterPRs
    \/ ExecFinally
    \/ ExecAfterCleanup

\* ------------------------------------------------------------------ specifications
ConfigLists ==
    UNION {[1..n -> Providers] : n \in 0..MaxRepos}

\* the manager never reads gitProvider, so one provider per position is enough for
\* the callers that exercise the manager alone
ProviderAt(i) == IF i % 3 = 1 THEN "gitea" ELSE IF i % 3 = 2 THEN "none" ELSE "github"

\* the state after `new MultiRepoWorktreeManager(configs, branchName)`
InitMgr ==
    /\ taskId \in TaskIds
    /\ branchArg \in CallerBranches
    /\ branchName = ConstructBranchName(branchArg, taskId)
    /\ \E n \in 0..MaxRepos : configs = [i \in 1..n |-> RepoConfig(i, ProviderAt(i))]
    /\ worktrees = <<>>
    /\ disk = {}
    /\ symlinks = {}
    /\ untracked = {}
    /\ edits = [r \in Repos |-> {}]
    /\ ahead = [r \in Repos |-> 0]
    /\ remote = {}
    /\ usedBranches = {}
    /\ call = "idle"
    /\ loc = LocInit
    /\ cl = ClInit
    /\ rollback = FALSE
    /\ pendingErr = NoErr
    /\ ret = NoRet
    /\ cleanupResult = [st |-> "none", warned |-> 0, inRollback |-> FALSE]
    /\ workspace = NoWorkspace
    /\ pushResults = <<>>
    /\ created = FALSE
    /\ ncalls = 0
    /\ prIn = NoPrIn
    /\ pr = PrIdle
    /\ prRet = NoPrRet
    /\ params = NoParams
    /\ epc = "client"
    /\ agentOut = NoAgentOut
    /\ execErr = NoErr
    /\ item = NoItem
    /\ io = {}

MgrSteps ==
    \/ CreateStep
    \/ CreateFinish
    \/ CommitStep
    \/ CommitFinish
    \/ PushStep
    \/ PushFinish
    \/ CleanupRemoveStep
    \/ CleanupPruneStep
    \/ CleanupFinish

NextMgr ==
    \/ MgrSteps
    \/ ClientCreate
    \/ ClientCommitAll
    \/ ClientPushAll
    \/ ClientCleanupAll
    \/ AgentEdit

SpecMgr == InitMgr /\ [][NextMgr]_vars

\* createMultiRepoPRs called on its own, with any map keyed by repository name
InitPR ==
    /\ taskId = ""
    /\ branchArg = ""
    /\ branchName = ""
    /\ configs = <<>>
    /\ worktrees = <<>>
    /\ disk = {}
    /\ symlinks = {}
    /\ untracked = {}
    /\ edits = [r \in Repos |-> {}]
    /\ ahead = [r \in Repos |-> 0]
    /\ remote = {}
    /\ usedBranches = {}
    /\ call = "idle"
    /\ loc = LocInit
    /\ cl = ClInit
    /\ rollback = FALSE
    /\ pendingErr = NoErr
    /\ ret = NoRet
    /\ cleanupResult = [st |-> "none", warned |-> 0, inRollback |-> FALSE]
    /\ workspace = NoWorkspace
    /\ pushResults = <<>>
    /\ created = FALSE
    /\ ncalls = 0
    /\ \E n \in 0..MaxPRRepos, tid \in TaskIds, b \in PRBranches, body \in PRBodies :
         \E ps \in [1..n -> Providers] :
           prIn = [taskId |-> tid,
                   repos |-> [i \in 1..n |->
                                [key |-> i, branch |-> b, config |-> RepoConfig(i, ps[i])]],
                   baseBranch |-> "main",
                   body |-> body]
    /\ pr = PrStart
    /\ prRet = NoPrRet
    /\ params = NoParams
    /\ epc = "client"
    /\ agentOut = NoAgentOut
    /\ execErr = NoErr
    /\ item = NoItem
    /\ io = {}

NextPR == PRSteps

\* the single-repository createPR, called up to MaxCalls times on one
\* repository; prRet holds what the last call returned or threw, io whether a
\* CLI was run
createPR ==
    /\ pr.pc = "single"
    /\ ncalls < MaxCalls
    /\ ncalls' = ncalls + 1
    /\ LET entry == prIn.repos[1]
           cfg == entry.config
       IN IF cfg.gitProvider = "none"
          THEN /\ prRet' = [NoPrRet EXCEPT !.st = "throw",
                                           !.err = PRCreationError("none", "disabled")]
               /\ io' = io
          ELSE \E out \in CreatePROutcomes :
                 LET cls == GetProvider(cfg)
                     e == ProviderCreateError(cls, entry.branch, prIn.baseBranch, out)
                 IN /\ io' = IF CliInvoked(cls, entry.branch, prIn.baseBranch)
                              THEN io \cup {"cli"} ELSE io
                    /\ prRet' = IF e = NoErr
                                THEN [NoPrRet EXCEPT
                                        !.st = "ok",
                                        !.prs = <<ProviderCreateResult(cls, cfg, out)>>]
                                ELSE [NoPrRet EXCEPT !.st = "throw", !.err = e]
    /\ UNCHANGED <<prIn, pr, mgrVars, envVars, callVars, created>>
    /\ UNCHANGED <<params, epc, agentOut, execErr, item>>

\* any repository configuration, 'gitlab' standing for a gitProvider value that
\* getProvider does not know
InitOne ==
    /\ taskId = ""
    /\ branchArg = ""
    /\ branchName = ""
    /\ configs = <<>>
    /\ worktrees = <<>>
    /\ disk = {}
    /\ symlinks = {}
    /\ untracked = {}
    /\ edits = [r \in Repos |-> {}]
    /\ ahead = [r \in Repos |-> 0]
    /\ remote = {}
    /\ usedBranches = {}
    /\ call = "idle"
    /\ loc = LocInit
    /\ cl = ClInit
    /\ rollback = FALSE
    /\ pendingErr = NoErr
    /\ ret = NoRet
    /\ cleanupResult = [st |-> "none", warned |-> 0, inRollback |-> FALSE]
    /\ workspace = NoWorkspace
    /\ pushResults = <<>>
    /\ created = FALSE
    /\ ncalls = 0
    /\ \E i \in 1..MaxPRRepos, p \in Providers \cup {"gitlab"}, b \in PRBranches,
          base \in ParamBaseBranches, body \in PRBodies :
         prIn = [taskId |-> "",
                 repos |-> <<[key |-> i, branch |-> b, config |-> RepoConfig(i, p)]>>,
                 baseBranch |-> base,
                 body |-> body]
    /\ pr = [PrIdle EXCEPT !.pc = "single"]
    /\ prRet = NoPrRet
    /\ params = NoParams
    /\ epc = "client"
    /\ agentOut = NoAgentOut
    /\ execErr = NoErr
    /\ item = NoItem
    /\ io = {}

SpecOne == InitOne /\ [][createPR]_vars

\* one item of execute, before its parameters are read
Init ==
    /\ taskId = ""
    /\ branchArg = ""
    /\ branchName = ""
    /\ configs = <<>>
    /\ worktrees = <<>>
    /\ disk = {}
    /\ symlinks = {}
    /\ untracked = {}
    /\ edits = [r \in Repos |-> {}]
    /\ ahead = [r \in Repos |-> 0]
    /\ remote = {}
    /\ usedBranches = {}
    /\ call = "idle"
    /\ loc = LocInit
    /\ cl = ClInit
    /\ rollback = FALSE
    /\ pendingErr = NoErr
    /\ ret = NoRet
    /\ cleanupResult = [st |-> "none", warned |-> 0, inRollback |-> FALSE]
    /\ workspace = NoWorkspace
    /\ pushResults = <<>>
    /\ created = FALSE
    /\ ncalls = 0
    /\ prIn = NoPrIn
    /\ pr = PrIdle
    /\ prRet = NoPrRet
    /\ \E v \in ExecVariants, k \in InvalidKinds, n \in 0..MaxRepos, b \in ParamBranches,
          bb \in ParamBaseBranches, c \in BOOLEAN :
         params = [variant |-> v, invalid |-> k,
                   repos |-> [i \in 1..n |-> [repoName |-> i, gitProvider |-> ProviderAt(i)]],
                   branchName |-> b, baseBranch |-> bb, createPR |-> c]
    /\ epc = "start"
    /\ agentOut = NoAgentOut
    /\ execErr = NoErr
    /\ item = NoItem
    /\ io = {}

\* execute calls createMultiRepoPRs only with a non-empty map, so its empty-map
\* return is not a step here
Next ==
    \/ ExecSteps
    \/ MgrSteps
    \/ PRCreateStep
    \/ PRBuildDescription
    \/ PRUpdateStep
    \/ PRReturn

SpecPR == InitPR /\ [][NextPR]_vars

Spec == Init /\ [][Next]_vars

\* ------------------------------------------------------------------ properties
TaskPaths == {WorktreePath(configs[i], taskId) : i \in 1..Len(configs)}

PathsOf(rs) == {WorktreePath(ConfigOf(r), taskId) : r \in rs}

CreateThrew == call = "idle" /\ ret.m = "create" /\ ret.st = "throw"

ResultKeys == {pushResults[i].key : i \in 1..Len(pushResults)}

\* C1 as claimed: when create() throws, the manager tracks no worktree and no
\* worktree of the task remains on disk.
C1_NothingLeftOnDisk ==
    CreateThrew => (worktrees = <<>> /\ disk \cap TaskPaths = {})

\* C1 (amended): a failing setup makes create() throw after a cleanupAll over
\* exactly the worktrees created for the repositories before the failing one;
\* removal was attempted for each of them, the manager then tracks none, and the
\* paths still on disk are exactly those whose 'worktree remove' failed and whose
\* fallback delete did not remove them.
C1_RollbackBestEffort ==
    /\ rollback => call = "cleanupAll"
    /\ (call = "idle" /\ ret = Returned("create")) =>
            (loc.failedAt = 0 /\ Len(worktrees) = Len(configs))
    /\ CreateThrew =>
         /\ loc.failedAt \in 1..Len(configs)
         /\ worktrees = <<>>
         /\ cleanupResult.inRollback
         /\ cl.tracked = [i \in 1..(loc.failedAt - 1) |-> configs[i].repoName]
         /\ cl.idx = Len(cl.tracked) + 1
         /\ disk \cap TaskPaths = PathsOf(cl.left)

C1_Witness ==
    /\ CreateThrew
    /\ loc.failedAt = 2
    /\ Len(cl.tracked) = 1
    /\ disk = {}

\* C2: cleanupAll never throws, whatever fails in it; failures only show in the
\* count of the warning summary.
C2_CleanupNeverThrows ==
    /\ cleanupResult.st # "throw"
    /\ ret.m = "cleanupAll" => ret.st = "ok"
    /\ rollback => cleanupResult.st # "throw"

C2_Witness ==
    /\ ret = Returned("cleanupAll")
    /\ cleanupResult.warned > 0
    /\ cl.left # {}
    /\ cl.lastPrune = "failed"

\* C7: the branch name is the one construction fixed (the caller's when non-empty,
\* else agent/<taskId>), and every worktree add, branch delete, push, pushAll
\* result and returned Workspace carries that name.
C7_OneBranchName ==
    LET fixed == IF branchArg # "" THEN branchArg ELSE "agent/" \o taskId IN
    /\ branchName = fixed
    /\ usedBranches \subseteq {fixed}
    /\ \A i \in 1..Len(pushResults) : pushResults[i].branch = fixed
    /\ workspace # NoWorkspace => workspace.branchName = fixed

C7_Witness ==
    /\ branchArg # ""
    /\ workspace # NoWorkspace
    /\ Len(pushResults) > 0
    /\ usedBranches # {}

\* C8: commitAll commits a worktree only when its status lists a file, one commit
\* at a time; after it returned every tracked worktree is clean, and a commitAll
\* called right after a commitAll that returned, with no edit between, commits
\* nothing.
C8_CommitOnlyChanged ==
    /\ [](/\ (call = "idle" /\ ret = Returned("commitAll")) =>
                  \A r \in SeqToSet(worktrees) : StatusFiles(r) = 0
          /\ ((call = "commitAll" \/ ret.m = "commitAll") /\ loc.prev = "commitAll") =>
                  loc.acted = {})
    /\ [][\A r \in Repos :
            ahead'[r] > ahead[r] => (StatusFiles(r) > 0 /\ ahead'[r] = ahead[r] + 1)]_vars

C8_Witness ==
    /\ ret = Returned("commitAll")
    /\ loc.prev = "commitAll"
    /\ loc.visited # {}
    /\ \E r \in SeqToSet(worktrees) : ahead[r] = 1

\* C9: the map pushAll returns has as keys exactly the tracked repositories that
\* were ahead when it started, each with the task's branch and its own config;
\* exactly those were pushed.
C9_PushAllMap ==
    (call = "idle" /\ ret = Returned("pushAll")) =>
        /\ ResultKeys = loc.ahead0
        /\ loc.acted = loc.ahead0
        /\ Len(pushResults) = Cardinality(ResultKeys)
        /\ ResultKeys \subseteq remote
        /\ \A i \in 1..Len(pushResults) :
             /\ pushResults[i].branch = branchName
             /\ pushResults[i].config = ConfigOf(pushResults[i].key)

C9_Witness ==
    /\ ret = Returned("pushAll")
    /\ Len(pushResults) >= 1
    /\ Len(worktrees) > Len(pushResults)

\* C10: a failed push ends pushAll at once with a WorktreeError carrying that
\* repository's key: no repository after it has its status read or is pushed, no
\* map is returned, and what was pushed before stays pushed.
C10_PushFailureFatal ==
    ((call = "pushAll" \/ ret.m = "pushAll") /\ loc.lastOut = "pushFail") =>
        /\ call = "idle"
        /\ loc.failedAt \in 1..Len(worktrees)
        /\ ret = Threw("pushAll", WorktreeError(worktrees[loc.failedAt], "push", "none"))
        /\ loc.visited \cup loc.acted \subseteq {worktrees[i] : i \in 1..loc.failedAt}
        /\ ResultKeys = loc.acted \ {worktrees[loc.failedAt]}
        /\ ResultKeys \subseteq remote

C10_Witness ==
    /\ ret.m = "pushAll"
    /\ ret.st = "throw"
    /\ loc.lastOut = "pushFail"
    /\ loc.failedAt < Len(worktrees)
    /\ ahead[worktrees[Len(worktrees)]] > 0

\* ------------------------------------------------------------------ execute properties
ItemProduced == item.st # "none"

\* C3: in execute, once create() has been called, no result or error is produced
\* for the item before cleanupAll has run: from create()'s own catch block when
\* create() threw, from the finally block on every route after create() returned.
C3_CleanupAlwaysAttempted ==
    (created /\ ItemProduced) =>
        /\ cleanupResult.st # "none"
        /\ cleanupResult.inRollback = (workspace = NoWorkspace)
        /\ call = "idle"

C3_Witness ==
    /\ created
    /\ item.st = "thrown"
    /\ execErr.kind = "WorktreeError"
    /\ item.err = execErr
    /\ workspace # NoWorkspace
    /\ cleanupResult.st = "ok"
    /\ ~cleanupResult.inRollback

\* ------------------------------------------------------------------ PR coordinator properties
NamesOf(seq) == [i \in 1..Len(seq) |-> seq[i].repoName]

HasProvider(entry) == entry.config.gitProvider # "none"

CallReturned(c) == c.ok

InputNames(entries) == [i \in 1..Len(entries) |-> entries[i].config.repoName]

PRDone == pr.pc = "idle" /\ prRet.st # "none"

\* C4: createMultiRepoPRs never throws because a provider's createPR failed; on a
\* non-empty map it has called createPR for every repository whose provider is
\* not 'none', in input order, and returns exactly the PRs of the calls that
\* returned, in input order.
C4_FailuresIsolated ==
    /\ prRet.st # "throw"
    /\ (PRDone /\ Len(prIn.repos) > 0) =>
         /\ prRet.st = "ok"
         /\ NamesOf(pr.attempted) = InputNames(SelectSeq(prIn.repos, HasProvider))
         /\ NamesOf(prRet.prs) = NamesOf(SelectSeq(pr.attempted, CallReturned))

C4_Witness ==
    /\ PRDone
    /\ Len(pr.attempted) >= 2
    /\ ~pr.attempted[1].ok
    /\ pr.attempted[2].ok
    /\ Len(prRet.prs) = 1

\* C5: no updatePRBody call is made before createPR has been called for every
\* repository of the map that has a provider, and the description the updates
\* carry lists every PR those calls created.
C5_TwoPhase ==
    (pr.pc = "update" \/ pr.updates # <<>>) =>
        /\ NamesOf(pr.attempted) = InputNames(SelectSeq(prIn.repos, HasProvider))
        /\ NamesOf(pr.desc.entries) = NamesOf(SelectSeq(pr.attempted, CallReturned))
        /\ \A i \in 1..Len(pr.updates) : pr.updates[i].body = pr.desc

C5_Witness ==
    /\ Len(pr.updates) >= 1
    /\ Len(pr.attempted) >= 2
    /\ \E i \in 1..Len(pr.attempted) : ~pr.attempted[i].ok
    /\ Len(pr.desc.entries) >= 2

\* C6: when createMultiRepoPRs returns, each returned PR has had one updatePRBody
\* call, for its own number; every call carried the returned linkedDescription,
\* which holds the caller's body, the task id and one entry (repoName, number,
\* url, provider) per returned PR.
C6_CrossLinked ==
    (PRDone /\ prRet.st = "ok" /\ Len(prIn.repos) > 0) =>
        /\ Len(pr.updates) = Len(prRet.prs)
        /\ \A i \in 1..Len(prRet.prs) :
             /\ pr.updates[i].repoName = prRet.prs[i].repoName
             /\ pr.updates[i].number = prRet.prs[i].number
             /\ pr.updates[i].body = prRet.linkedDescription
        /\ prRet.linkedDescription.body = prIn.body
        /\ prRet.linkedDescription.related
        /\ prRet.linkedDescription.taskId = prIn.taskId
        /\ prRet.linkedDescription.entries = prRet.prs

C6_Witness ==
    /\ PRDone
    /\ Len(prRet.prs) >= 2
    /\ \E i, j \in 1..Len(prRet.prs) :
         prRet.prs[i].provider = "gitea" /\ prRet.prs[j].provider = "github"
    /\ pr.lastUpdate = "failed"
    /\ Len(pr.updates) = Len(prRet.prs)

\* ------------------------------------------------------------------ skipped repositories
NoneNames == {prIn.repos[i].config.repoName : i \in {j \in 1..Len(prIn.repos) : prIn.repos[j].config.gitProvider = "none"}}

NoneSkipped ==
    /\ NoneNames \cap SeqToSet(NamesOf(pr.attempted)) = {}
    /\ NoneNames \cap SeqToSet(NamesOf(pr.updates)) = {}
    /\ NoneNames \cap SeqToSet(NamesOf(pr.prs)) = {}
    /\ NoneNames \cap SeqToSet(NamesOf(pr.desc.entries)) = {}
    /\ prRet.st # "throw"

\* two gitea repositories and one 'none' repository, both creations returned
TwoGiteaOneNone ==
    /\ PRDone
    /\ Len(prIn.repos) = 3
    /\ Cardinality(NoneNames) = 1
    /\ \A i \in 1..3 : prIn.repos[i].config.gitProvider \in {"gitea", "none"}
    /\ Len(pr.attempted) = 2
    /\ \A i \in 1..2 : pr.attempted[i].ok

ReferencesAll(body) ==
    /\ body.related
    /\ body.taskId = prIn.taskId
    /\ body.entries = prRet.prs

\* C11 as stated: a 'none' repository gets no createPR and no updatePRBody call, no
\* PRResult, no error and no line in the description; with two gitea repositories
\* created and one 'none', two PRs are returned and the body each PR ends up with
\* references both PRs and the task id.
C11_FinalBodiesLinked ==
    /\ NoneSkipped
    /\ TwoGiteaOneNone =>
         /\ Len(prRet.prs) = 2
         /\ \A i \in 1..2 : ReferencesAll(pr.bodies[i])

\* C11: as above, except that each PR is sent one body update referencing both PRs
\* and the task id, and ends up with that body when its update call succeeded; a
\* PR whose update call failed keeps the placeholder body it was created with.
C11_NoneSkippedUpdatesSent ==
    /\ NoneSkipped
    /\ TwoGiteaOneNone =>
         /\ Len(prRet.prs) = 2
         /\ Len(pr.updates) = 2
         /\ \A i \in 1..2 :
              /\ pr.updates[i].repoName = prRet.prs[i].repoName
              /\ ReferencesAll(pr.updates[i].body)
              /\ pr.bodies[i] = IF pr.updates[i].ok
                                THEN pr.updates[i].body
                                ELSE PlainDescription(PlaceholderBody)

C11_Witness ==
    /\ TwoGiteaOneNone
    /\ prIn.repos[2].config.gitProvider = "none"
    /\ Len(prRet.prs) = 2
    /\ \A i \in 1..2 : pr.updates[i].ok /\ ReferencesAll(pr.bodies[i])

\* ------------------------------------------------------------------ cleanup fallback
\* cleanupAll has ended (on its own or inside create()'s catch block)
CleanupEnded == call = "idle" /\ cleanupResult.st # "none" /\ cl.idx > Len(cl.tracked)

\* 'worktree remove --force' failed for every worktree the call found tracked
EveryRemoveFailed == Len(cl.tracked) > 0 /\ cl.fallbacks = Len(cl.tracked)

LastTrackedPath == WorktreePath(ConfigOf(cl.tracked[Len(cl.tracked)]), taskId)

\* C12 as stated: when 'worktree remove --force' failed for every tracked worktree,
\* cleanupAll has deleted each path, returns normally, and no worktree path of the
\* call exists afterwards.
C12_AllPathsGone ==
    (CleanupEnded /\ EveryRemoveFailed) =>
        /\ cleanupResult.st = "ok"
        /\ disk \cap PathsOf(SeqToSet(cl.tracked)) = {}

\* C12: when 'worktree remove --force' failed for every tracked worktree, cleanupAll
\* has called the recursive forced delete once per worktree and returns normally;
\* afterwards the paths whose delete went through are gone, and the only paths
\* still on disk are those whose delete threw or that outlived the delete.
C12_FallbackDelete ==
    (CleanupEnded /\ EveryRemoveFailed) =>
        /\ cleanupResult.st = "ok"
        /\ cl.fallbacks = Len(cl.tracked)
        /\ disk \cap PathsOf(SeqToSet(cl.tracked)) = PathsOf(cl.left)
        /\ cl.errors <= Cardinality(cl.left)
        /\ cl.lastOut = "deleted" => LastTrackedPath \notin disk
        /\ cl.lastOut \in {"stillExists", "rmFailed"} => LastTrackedPath \in disk

C12_Witness ==
    /\ CleanupEnded
    /\ ret = Returned("cleanupAll")
    /\ Len(cl.tracked) = 2
    /\ cl.fallbacks = 2
    /\ cl.left = {}
    /\ disk = {}

\* C13: whenever cleanupAll has ended, every tracked worktree whose path is still
\* on disk has an entry in the errors of the warning summary, whether its delete
\* threw or returned with the path still there, and cleanupAll has not thrown.
C13_SurvivorRecorded ==
    /\ cleanupResult.st # "throw"
    /\ CleanupEnded => cl.errors = Cardinality(cl.left)
    /\ (call = "cleanupAll" /\ cl.lastOut = "stillExists") => cl.errors > 0

\* a cleanupAll in which a path outlived a delete that returned
C13_Witness ==
    /\ CleanupEnded
    /\ ret = Returned("cleanupAll")
    /\ cl.lastOut = "stillExists"
    /\ cl.errors = 0
    /\ cleanupResult.warned = 0
    /\ LastTrackedPath \in disk

\* ------------------------------------------------------------------ worktree add retry
CreateHandledRepo == loc.lastOut \in CreateOutcomes

\* C14: for the repository create() handled last: when its first 'worktree add'
\* failed, the branch was force-deleted and 'worktree add' was run exactly once
\* more; its setup failed at 'worktree add' only if that second run failed too;
\* 'worktree add' ran at most twice; 'branch -D' ran only after a failed first
\* 'worktree add'.
C14_RetryOnce ==
    CreateHandledRepo =>
        /\ FirstAddFailed(loc.lastOut) => (loc.deletes = 1 /\ loc.adds = 2)
        /\ (CreateThrew /\ ret.err.at = "worktreeAdd") => SecondAddFailed(loc.lastOut)
        /\ loc.adds <= 2
        /\ loc.deletes > 0 => FirstAddFailed(loc.lastOut)

\* the first 'worktree add' and then 'branch -D' failed: create() threw after a
\* single 'worktree add'
C14_Witness ==
    /\ CreateThrew
    /\ loc.lastOut = "branchDelFail"
    /\ loc.adds = 1
    /\ loc.deletes = 1
    /\ ret.err.kind = "WorktreeError"
    /\ ret.err.at = "worktreeAdd"

\* ------------------------------------------------------------------ empty map
EmptyInput == Len(prIn.repos) = 0

\* C15: with an empty map createMultiRepoPRs makes no createPR and no updatePRBody
\* call, never enters either pass, and returns an empty PR list with the caller's
\* body, unchanged, as linkedDescription.
C15_EmptyMapReturnsAtOnce ==
    EmptyInput =>
        /\ pr.attempted = <<>>
        /\ pr.updates = <<>>
        /\ pr.pc # "update"
        /\ pr.idx = 1
        /\ PRDone =>
             /\ prRet.st = "ok"
             /\ prRet.prs = <<>>
             /\ prRet.linkedDescription.body = prIn.body
             /\ ~prRet.linkedDescription.related
             /\ prRet.linkedDescription.taskId = ""
             /\ prRet.linkedDescription.entries = <<>>

C15_Witness ==
    /\ EmptyInput
    /\ PRDone
    /\ prRet.st = "ok"
    /\ prRet.linkedDescription.body = "agent output"

\* ------------------------------------------------------------------ empty repository list
NoConfigs == Len(configs) = 0

\* C16: a manager constructed with no repository never runs a git command and
\* never creates a link or a directory: no loop of create, commitAll, pushAll or
\* cleanupAll is entered, nothing is pushed, and the Workspace create() returns
\* has empty worktrees and configs and the process's working directory as
\* workingDir.
C16_EmptyListNoGit ==
    NoConfigs =>
        /\ worktrees = <<>>
        /\ loc.lastOut = "none" /\ loc.adds = 0 /\ loc.deletes = 0
        /\ loc.visited = {} /\ loc.acted = {} /\ loc.idx = 1
        /\ cl.lastOut = "none" /\ cl.lastPrune = "none" /\ cl.fallbacks = 0
        /\ cl.idx = 1 /\ cl.pidx = 1
        /\ usedBranches = {} /\ disk = {} /\ symlinks = {} /\ remote = {}
        /\ \A r \in Repos : ahead[r] = 0
        /\ pushResults = <<>>
        /\ ret.st # "throw"
        /\ workspace # NoWorkspace =>
             /\ workspace.worktrees = <<>>
             /\ workspace.configs = <<>>
             /\ workspace.workingDir = <<"cwd">>
             /\ workspace.taskId = taskId
             /\ workspace.branchName = branchName

C16_Witness ==
    /\ NoConfigs
    /\ workspace # NoWorkspace
    /\ workspace.workingDir = <<"cwd">>
    /\ ret = Returned("pushAll")
    /\ loc.prev = "commitAll"

\* ------------------------------------------------------------------ cross-repository links
CreateReturned == call = "idle" /\ ret = Returned("create")

ExpectedLinks ==
    {[linkDir |-> WorktreePath(configs[1], taskId),
      name |-> configs[i].repoName,
      target |-> WorktreePath(configs[i], taskId)] : i \in 2..Len(configs)}

\* C17 as stated: after a create() that returned with two or more repositories,
\* the primary worktree holds exactly one link per non-primary repository, named
\* after it and pointing at its worktree; no link exists while create() is still
\* making worktrees, and none lies in another worktree.
C17_ExactlyAllLinks ==
    /\ call = "create" => symlinks = {}
    /\ (CreateReturned /\ Len(configs) >= 2) => symlinks = ExpectedLinks

\* C17: every link create() made lies in the primary worktree, is named after a
\* non-primary repository and points at that repository's worktree, at most one
\* per repository; no link exists while create() is still making worktrees or
\* after a create() that threw; a repository whose fs.symlink call failed has no
\* link, so a create() over N >= 2 repositories returns with at most N-1 links.
C17_LinksOnlyAsSpecified ==
    /\ call = "create" => symlinks = {}
    /\ CreateThrew => symlinks = {}
    /\ Len(configs) <= 1 => symlinks = {}
    /\ Len(configs) >= 2 => symlinks \subseteq ExpectedLinks
    /\ (CreateReturned /\ Len(configs) >= 2) =>
         /\ Len(worktrees) = Len(configs)
         /\ Cardinality(symlinks) <= Len(configs) - 1

C17_Witness ==
    /\ CreateReturned
    /\ Len(configs) = 2
    /\ symlinks = ExpectedLinks
    /\ Cardinality(symlinks) = 1

\* ------------------------------------------------------------------ returned workspace
\* C18: the Workspace create() returns for one or more repositories maps every
\* configured repository, and nothing else, to worktreesBase/repoName/taskId;
\* these paths differ from each other, and workingDir is the first configured
\* repository's path, one of the values of that mapping.
C18_WorkspaceShape ==
    (workspace # NoWorkspace /\ Len(configs) >= 1) =>
        /\ Len(workspace.worktrees) = Len(configs)
        /\ \A i \in 1..Len(configs) :
             /\ workspace.worktrees[i].key = configs[i].repoName
             /\ workspace.worktrees[i].path =
                    <<configs[i].worktreesBase, configs[i].repoName, workspace.taskId>>
        /\ \A i, j \in 1..Len(configs) :
             workspace.worktrees[i].path = workspace.worktrees[j].path => i = j
        /\ workspace.workingDir = <<configs[1].worktreesBase, configs[1].repoName, taskId>>
        /\ \E i \in 1..Len(workspace.worktrees) :
             workspace.worktrees[i].path = workspace.workingDir
        /\ workspace.taskId = taskId

C18_Witness ==
    /\ CreateReturned
    /\ Len(configs) = 2
    /\ workspace.workingDir = workspace.worktrees[1].path
    /\ workspace.worktrees[2].path = <<"/wt", 2, taskId>>

\* ------------------------------------------------------------------ error scope
ManagerThrew == call = "idle" /\ ret.st = "throw" /\ ret.m \in {"create", "commitAll", "pushAll"}

\* the repository create(), commitAll or pushAll was handling when it threw
FailedRepo ==
    IF ret.m = "create" THEN configs[loc.failedAt].repoName ELSE worktrees[loc.failedAt]

\* C19: whatever create(), commitAll or pushAll throws is a WorktreeError carrying
\* the key of the repository it was handling when the failure occurred.
C19_RepoScopedErrors ==
    ManagerThrew =>
        /\ ret.err.kind = "WorktreeError"
        /\ ret.err.repo = FailedRepo

\* commitAll threw what 'git status' threw: no WorktreeError, no repository key
C19_Witness ==
    /\ ManagerThrew
    /\ ret.m = "commitAll"
    /\ loc.failedAt = 2
    /\ ret.err = RawError("status")

\* ------------------------------------------------------------------ validation before I/O
ValidatedFields == {"prompt", "branchName", "baseBranch", "timeout", "maxTurns", "repoConfig"}

\* the item ended with the error of a failed validation
RejectedByValidation ==
    /\ item.st \in {"errorItem", "thrown"}
    /\ item.err.kind = "NodeOperationError"
    /\ item.err.at \in ValidatedFields

\* C20: an item rejected because its prompt, branch name, base branch, timeout,
\* maxTurns or a repository configuration failed validation is rejected before
\* execute has read the agent file, made a temporary directory or a worktree, or
\* run git, the agent or a PR call for it.
C20_RejectedBeforeIO ==
    RejectedByValidation =>
        /\ io = {}
        /\ ~created
        /\ agentOut = NoAgentOut
        /\ pr = PrIdle

\* a repository configuration rejected after the agent definition was read
C20_Witness ==
    /\ RejectedByValidation
    /\ item.err.at = "repoConfig"
    /\ params.variant = "promptOnlyCapable"
    /\ io = {"agentFile"}
    /\ ~created

\* ------------------------------------------------------------------ branch names
\* C21: a caller-supplied branch name that validateBranchName accepts is the
\* branch of every repository, verbatim; a generated name is agent/<taskId>
\* and validateBranchName accepts it too; so no createPR of a provider throws
\* a ValidationError for the branch that pushAll returned.
C21_BranchNameRoundTrip ==
    LET callerNamed == params # NoParams /\ params.branchName # ""
        pushed == {pushResults[i].branch : i \in 1..Len(pushResults)}
    IN /\ branchName # "" =>
            /\ callerNamed =>
                 /\ BranchNameAccepted(params.branchName)
                 /\ branchName = params.branchName
            /\ ~callerNamed =>
                 /\ branchName = "agent/" \o taskId
                 /\ Spell(branchName) = <<"a", "g", "e", "n", "t", "/">> \o Spell(taskId)
                 /\ Len(Spell(taskId)) = 8
                 /\ BranchNameAccepted(branchName)
       /\ usedBranches \subseteq {branchName}
       /\ pushed \subseteq {branchName}
       /\ \A i \in 1..Len(pr.attempted) : pr.attempted[i].why # "ValidationError"

\* a generated branch was pushed and a provider's createPR took it
C21_Witness ==
    /\ params # NoParams /\ params.branchName = ""
    /\ Len(pushResults) > 0
    /\ \A i \in 1..Len(pushResults) : pushResults[i].branch = "agent/" \o taskId
    /\ \E i \in 1..Len(pr.attempted) : pr.attempted[i].ok

\* ------------------------------------------------------------------ worktree lifecycle
\* the worktrees the running or last cleanupAll took off the disk
RemovedByCleanup ==
    {cl.tracked[i] : i \in 1..(IF cl.idx - 1 < Len(cl.tracked)
                                THEN cl.idx - 1 ELSE Len(cl.tracked))} \ cl.left

\* the worktree a step of commitAll or pushAll works on
ActedOn ==
    IF call \in {"commitAll", "pushAll"} /\ loc.idx <= Len(worktrees)
    THEN {worktrees[loc.idx]} ELSE {}

C23_UpdateFailureNonFatal ==
    LET updatable(p) ==
            /\ RepoDataAt(p.repoName) # {}
            /\ SupportsBodyUpdate(GetProvider(prIn.repos[MinOf(RepoDataAt(p.repoName))].config))
    IN /\ prRet.err # RawError("raw:patch")
       /\ (\E i \in 1..Len(pr.updates) : ~pr.updates[i].ok) =>
            /\ prRet.st # "throw"
            /\ PRDone =>
                 /\ prRet.st = "ok"
                 /\ prRet.prs = pr.prs
                 /\ NamesOf(prRet.prs) = NamesOf(SelectSeq(pr.attempted, CallReturned))
                 /\ NamesOf(pr.updates) = NamesOf(SelectSeq(pr.prs, updatable))

\* the first update failed, a later one was still sent, and all PRs came back
C23_Witness ==
    /\ PRDone
    /\ Len(pr.updates) >= 2
    /\ ~pr.updates[1].ok
    /\ Len(prRet.prs) >= 2

\* ------------------------------------------------------------------ orchestration order
\* C24: execute takes its steps in the order load agent, create workspace, run
\* agent, commitAll, pushAll, createMultiRepoPRs, cleanupAll; commitAll and
\* pushAll start only when a PR was requested and the agent reported modified
\* files, whatever its success flag; createMultiRepoPRs starts only after
\* pushAll returned a non-empty map, and is given exactly that map, so every
\* repository it is asked about was pushed.
C24_OrchestrationOrder ==
    [][LET rank(p) ==
               CASE p \in {"start", "buildConfigs", "loadAgent"} -> 0
                 [] p \in {"promptOnly", "construct"} -> 1
                 [] p = "creating" -> 2
                 [] p = "agent" -> 3
                 [] p = "afterAgent" -> 4
                 [] p = "committing" -> 5
                 [] p = "pushing" -> 6
                 [] p = "prs" -> 7
                 [] p = "finally" -> 8
                 [] p = "cleaning" -> 9
                 [] OTHER -> 10
           wanted == params.createPR /\ agentOut.st = "returned" /\ agentOut.filesModified > 0
       IN /\ rank(epc') >= rank(epc)
          /\ (call # "create" /\ call' = "create") =>
               (epc = "construct" /\ "agentFile" \in io)
          /\ (epc # "agent" /\ epc' = "agent") => ret = Returned("create")
          /\ (call # "commitAll" /\ call' = "commitAll") => (epc = "afterAgent" /\ wanted)
          /\ (call # "pushAll" /\ call' = "pushAll") =>
               (epc = "committing" /\ wanted /\ ret = Returned("commitAll"))
          /\ (pr.pc = "idle" /\ pr'.pc # "idle") =>
               /\ epc = "pushing"
               /\ ret = Returned("pushAll")
               /\ Len(pushResults) > 0
               /\ prIn'.repos = pushResults
               /\ \A i \in 1..Len(pushResults) : pushResults[i].key \in remote
          /\ (call # "cleanupAll" /\ call' = "cleanupAll" /\ ~rollback') => epc = "finally"
          /\ epc' \in {"cleaning", "done"} =>
               (call' \in {"idle", "cleanupAll"} /\ pr'.pc = "idle")]_vars

\* the agent reported failure and modified files; the branch was committed,
\* pushed, offered for a PR, and the workspace was then cleaned up
C24_Witness ==
    /\ epc = "done"
    /\ agentOut.st = "returned" /\ ~agentOut.success
    /\ Len(pushResults) > 0
    /\ Len(pr.attempted) > 0
    /\ ret = Returned("cleanupAll")

\* ------------------------------------------------------------------ disabled providers
\* C25: the single-repository createPR throws a PRCreationError at once, without
\* running any command, when the repository's provider is 'none'; and the NoOp
\* provider's createPR throws a PRCreationError every time it is called.
C25_DisabledProviderFails ==
    LET cfg == prIn.repos[1].config IN
    (pr.pc = "single" /\ ncalls > 0) =>
        /\ cfg.gitProvider = "none" =>
             /\ prRet.st = "throw"
             /\ prRet.err = PRCreationError("none", "disabled")
             /\ io = {}
        /\ GetProvider(cfg) = "NoOpProvider" =>
             /\ prRet.st = "throw"
             /\ prRet.err.kind = "PRCreationError"
             /\ prRet.prs = <<>>
             /\ io = {}

\* createPR was called twice on a repository whose provider is 'none'
C25_Witness ==
    /\ pr.pc = "single"
    /\ ncalls >= 2
    /\ prIn.repos[1].config.gitProvider = "none"
    /\ prRet.st = "throw"

\* ------------------------------------------------------------------ rollback and the primary error
\* C26: when the setup of a repository fails, create() throws the error of that
\* setup, also when removals or prunes of the rollback failed.
C26_PrimaryErrorKept ==
    CreateThrew =>
        /\ loc.failedAt \in 1..Len(configs)
        /\ ret.err # NoErr
        /\ ret.err = CreateSingleError(configs[loc.failedAt], loc.lastOut)
        /\ cleanupResult.inRollback /\ cleanupResult.st = "ok"

\* the second repository's setup failed, and in the rollback the removal of the
\* first worktree and the prune failed as well
C26_Witness ==
    /\ CreateThrew
    /\ loc.failedAt = 2
    /\ cl.errors > 0
    /\ cl.lastPrune = "failed"
    /\ ret.err = CreateSingleError(configs[2], loc.lastOut)

\* ------------------------------------------------------------------ cleanupAll's two loops
\* C27: cleanupAll attempts the removal of every tracked worktree, also after a
\* removal failed; it prunes nothing before the last removal was attempted, and
\* then prunes once per tracked worktree; a failed prune neither ends the loop
\* nor counts as an error.
C27_RemoveAllThenPrune ==
    /\ [](/\ (call = "cleanupAll" /\ cl.pidx > 1) => cl.idx = Len(cl.tracked) + 1
          /\ (call = "idle" /\ cleanupResult.st # "none") =>
               /\ cleanupResult.st = "ok"
               /\ cl.idx = Len(cl.tracked) + 1
               /\ cl.pidx = Len(cl.tracked) + 1
               /\ cleanupResult.warned = cl.errors
               /\ cl.errors <= Cardinality(cl.left))
    /\ [][/\ (call = "cleanupAll" /\ cl'.idx = cl.idx + 1) =>
              /\ cl'.pidx = 1
              /\ call' = "cleanupAll"
          /\ (call = "cleanupAll" /\ cl'.pidx = cl.pidx + 1) =>
              /\ cl'.idx = cl.idx
              /\ cl'.errors = cl.errors
              /\ call' = "cleanupAll"]_vars

\* the first of two removals failed, the second was still attempted, and the
\* prune that failed last left the error count at one
C27_Witness ==
    /\ ret = Returned("cleanupAll")
    /\ Len(cl.tracked) = 2
    /\ cl.left = {cl.tracked[1]}
    /\ cl.errors = 1
    /\ cl.lastPrune = "failed"

\* ------------------------------------------------------------------ PR numbers
\* C28: the number of a created PR is the one after the first "PR #" of the
\* CLI's output, upper or lower case; without one, the one after the first
\* "#"; without either, 0. A PR whose number is 0 is returned and listed in the
\* linked description like any other.
C28_NumberParsing ==
    /\ \A i \in 1..Len(pr.attempted) :
         LET o == pr.attempted[i].stdout
             named == {k \in 1..Len(o) : o[k].t \in {"PR#", "pr#"}}
             hashed == {k \in 1..Len(o) : o[k].t \in {"PR#", "pr#", "#"}}
             first(S) == CHOOSE k \in S : \A j \in S : k <= j
         IN pr.attempted[i].ok =>
              \E k \in 1..Len(pr.prs) :
                /\ pr.prs[k].repoName = pr.attempted[i].repoName
                /\ named # {} => pr.prs[k].number = o[first(named)].n
                /\ (named = {} /\ hashed # {}) => pr.prs[k].number = o[first(hashed)].n
                /\ hashed = {} => pr.prs[k].number = 0
                /\ pr.prs[k].url.number = pr.prs[k].number
    /\ (PRDone /\ prRet.st = "ok" /\ Len(prIn.repos) > 0) =>
         /\ prRet.prs = pr.prs
         /\ prRet.linkedDescription.entries = pr.prs

\* one output had "#5" before "pr #7", another had no number at all; both PRs
\* were returned
C28_Witness ==
    /\ PRDone
    /\ \E i, j \in 1..Len(pr.attempted) :
         /\ pr.attempted[i].stdout = <<[t |-> "#", n |-> 5], [t |-> "pr#", n |-> 7]>>
         /\ pr.attempted[j].ok /\ pr.attempted[j].stdout = <<>>
    /\ \E k, l \in 1..Len(prRet.prs) : prRet.prs[k].number = 7 /\ prRet.prs[l].number = 0

\* ------------------------------------------------------------------ links and commits
\* C29: the links create() put into the primary worktree never enter a commit
\* or a push: with two or more repositories, commitAll commits in the primary
\* worktree only when the agent changed a file there, and pushAll reports the
\* primary repository only while no link has been committed.
C29_LinksNeverCommitted ==
    /\ [](\A l \in symlinks : l.name \in untracked)
    /\ [][Len(configs) >= 2 =>
            /\ ahead'[PrimaryRepo] > ahead[PrimaryRepo] => edits[PrimaryRepo] # {}
            /\ (Len(pushResults') > Len(pushResults)
                  /\ pushResults'[Len(pushResults')].key = PrimaryRepo) =>
                 \A l \in symlinks : l.name \in untracked]_vars

\* commitAll, called right after create() returned and with no edit by the
\* agent, committed in the primary worktree
C29_Witness ==
    /\ ret = Returned("commitAll")
    /\ loc.prev = "create"
    /\ Len(configs) >= 2
    /\ PrimaryRepo \in loc.acted
    /\ ahead[PrimaryRepo] = 1
    /\ \A r \in Repos : edits[r] = {}

\* ------------------------------------------------------------------ after cleanupAll
\* C30: when cleanupAll has returned, with or without errors, the manager
\* tracks nothing and getWorktree finds no repository; and while nothing is
\* tracked, a cleanupAll, commitAll or pushAll touches neither git nor the disk
\* and tracks nothing, pushAll returns an empty map, and a path whose removal
\* failed stays as it is.
C30_NothingTrackedAfterCleanup ==
    /\ []((call = "idle" /\ (ret.m = "cleanupAll" \/ CreateThrew)) =>
            /\ cleanupResult.st = "ok"
            /\ worktrees = <<>>
            /\ \A r \in Repos : getWorktree(r) = {})
    /\ []((worktrees = <<>> /\ ret = Returned("pushAll")) => pushResults = <<>>)
    /\ [][(worktrees = <<>> /\ call # "create" /\ call' # "create") =>
            /\ worktrees' = <<>>
            /\ UNCHANGED <<disk, symlinks, untracked, edits, ahead, remote, usedBranches>>
            /\ cl' = cl \/ cl' = ClInit
            /\ loc' = loc \/ (loc'.idx = 1 /\ loc'.visited = {} /\ loc'.acted = {})
            /\ cleanupResult' = cleanupResult \/ cleanupResult'.warned = 0
            /\ ret'.st # "throw" \/ rollback]_vars

\* the first cleanupAll left a path on disk; a second one returned and the path
\* is still there
C30_Witness ==
    /\ ret = Returned("cleanupAll")
    /\ created
    /\ cl.tracked = <<>>
    /\ disk # {}
====
